---------------------------- MODULE Spec2Model ----------------------------
(***************************************************************************)
(* Model of kvdistlead/config.py: the startup configuration of the K/V     *)
(* distributed leader election service.                                    *)
(*                                                                         *)
(* A Python str is a sequence of tokens.  A value read from the            *)
(* environment is a sequence of one-character tokens; the fixed text of an *)
(* error message is one token per literal piece of the f-string.           *)
(* os.environ is a function from the names that are set to their values.   *)
(***************************************************************************)
EXTENDS Integers, Sequences, FiniteSets, TLC

VARIABLES
    pc,        \* "start": module not imported yet; "ready": import done
    environ,   \* os.environ
    dotenv,    \* bindings of the .env file found by find_dotenv()
    preload,   \* os.environ as it was when the import began
    result,    \* outcome of the latest get_config() call since environ last changed
    prev,      \* outcome of the call before it, if environ did not change in between
    heap,      \* the dict objects get_config() has returned, in order of creation
    call       \* the latest direct call of a leaf function, with its outcome

vars == <<pc, environ, dotenv, preload, result, prev, heap, call>>

-----------------------------------------------------------------------------
(* Python values and outcomes *)

PyNone == [t |-> "NoneType"]
PyStr(s) == [t |-> "str", v |-> s]
PyInt(n) == [t |-> "int", v |-> n]
PyFloat(f) == [t |-> "float", v |-> f]
PyBool(b) == [t |-> "bool", v |-> b]

Return(v) == [kind |-> "return", value |-> v]
Raise(type, msg) == [kind |-> "raise", exc |-> [type |-> type, msg |-> msg]]

\* A float: not-a-number, an infinity, or the finite decimal m * 10^e kept in
\* normal form (m has no trailing zero; zero is m = 0, e = 0).  The strings
\* of the model are short, so distinct decimals are distinct doubles.
NaN == [cls |-> "nan", m |-> 0, e |-> 0]
Inf(neg) == [cls |-> "inf", m |-> IF neg THEN -1 ELSE 1, e |-> 0]

RECURSIVE Normal(_, _)
Normal(m, e) ==
    IF m = 0 THEN [cls |-> "fin", m |-> 0, e |-> 0]
    ELSE IF m % 10 = 0 THEN Normal(m \div 10, e + 1)
    ELSE [cls |-> "fin", m |-> m, e |-> e]

\* Python's == on two values of the record: a NaN equals nothing, itself included.
PyEq(a, b) ==
    IF a.t = "float" /\ b.t = "float" /\ (a.v.cls = "nan" \/ b.v.cls = "nan")
    THEN FALSE
    ELSE a = b

-----------------------------------------------------------------------------
(* str methods *)

Digits == {"0", "1", "2", "3", "4", "5", "6", "7", "8", "9"}
DigitVal == [c \in Digits |->
    CASE c = "0" -> 0 [] c = "1" -> 1 [] c = "2" -> 2 [] c = "3" -> 3 [] c = "4" -> 4
      [] c = "5" -> 5 [] c = "6" -> 6 [] c = "7" -> 7 [] c = "8" -> 8 [] c = "9" -> 9]

\* The whitespace a string of the model can hold: what str.strip(), int()
\* and float() drop at both ends.
Whitespace == {" ", "\t", "\n", "\r", "\f"}

RECURSIVE LStrip(_)
LStrip(s) == IF s # <<>> /\ Head(s) \in Whitespace THEN LStrip(Tail(s)) ELSE s

RECURSIVE RStrip(_)
RStrip(s) ==
    IF s # <<>> /\ s[Len(s)] \in Whitespace THEN RStrip(SubSeq(s, 1, Len(s) - 1)) ELSE s

strip(s) == RStrip(LStrip(s))

Upper == {"A", "B", "C", "D", "E", "F", "G", "H", "I", "J", "K", "L", "M",
          "N", "O", "P", "Q", "R", "S", "T", "U", "V", "W", "X", "Y", "Z"}
LowerOf == [c \in Upper |->
    CASE c = "A" -> "a" [] c = "B" -> "b" [] c = "C" -> "c" [] c = "D" -> "d"
      [] c = "E" -> "e" [] c = "F" -> "f" [] c = "G" -> "g" [] c = "H" -> "h"
      [] c = "I" -> "i" [] c = "J" -> "j" [] c = "K" -> "k" [] c = "L" -> "l"
      [] c = "M" -> "m" [] c = "N" -> "n" [] c = "O" -> "o" [] c = "P" -> "p"
      [] c = "Q" -> "q" [] c = "R" -> "r" [] c = "S" -> "s" [] c = "T" -> "t"
      [] c = "U" -> "u" [] c = "V" -> "v" [] c = "W" -> "w" [] c = "X" -> "x"
      [] c = "Y" -> "y" [] c = "Z" -> "z"]

\* str.lower() on the ASCII letters.
lower(s) == [i \in 1..Len(s) |-> IF s[i] \in Upper THEN LowerOf[s[i]] ELSE s[i]]

-----------------------------------------------------------------------------
(* int(raw) and float(raw) *)

\* A digit part: digits, with single underscores between digits only.
DigitPart(s) ==
    /\ s # <<>>
    /\ \A i \in 1..Len(s) : s[i] \in Digits \cup {"_"}
    /\ s[1] # "_" /\ s[Len(s)] # "_"
    /\ \A i \in 1..(Len(s) - 1) : ~(s[i] = "_" /\ s[i + 1] = "_")

\* The number the digits of s spell after acc; underscores are skipped.
RECURSIVE DigitsValue(_, _)
DigitsValue(s, acc) ==
    IF s = <<>> THEN acc
    ELSE IF Head(s) = "_" THEN DigitsValue(Tail(s), acc)
    ELSE DigitsValue(Tail(s), 10 * acc + DigitVal[Head(s)])

\* The number of digits of s.
NDigits(s) == Cardinality({i \in 1..Len(s) : s[i] \in Digits})

Signed(s) == s # <<>> /\ Head(s) \in {"+", "-"}
Unsigned(s) == IF Signed(s) THEN Tail(s) ELSE s
Negative(s) == s # <<>> /\ Head(s) = "-"

\* int(raw): whether the string is a base-10 integer literal, and its value.
IntParses(raw) == DigitPart(Unsigned(strip(raw)))
IntOf(raw) ==
    LET s == strip(raw)
        n == DigitsValue(Unsigned(s), 0)
    IN IF Negative(s) THEN -n ELSE n

\* The positions of s that hold a character of set cs.
Positions(s, cs) == {i \in 1..Len(s) : s[i] \in cs}
First(S) == CHOOSE i \in S : \A j \in S : i <= j

\* A decimal mantissa: digits with at most one point and at least one digit.
MantissaParts(s) ==
    LET dots == Positions(s, {"."})
        d == IF dots = {} THEN Len(s) + 1 ELSE First(dots)
    IN [int |-> SubSeq(s, 1, d - 1), frac |-> SubSeq(s, d + 1, Len(s))]
MantissaOK(s) ==
    LET p == MantissaParts(s)
    IN /\ (p.int = <<>> \/ DigitPart(p.int))
       /\ (p.frac = <<>> \/ DigitPart(p.frac))
       /\ (p.int # <<>> \/ p.frac # <<>>)

\* A decimal literal: a mantissa, then an optional exponent e[+-]digits.
DecimalParts(s) ==
    LET es == Positions(s, {"e", "E"})
        k == IF es = {} THEN Len(s) + 1 ELSE First(es)
    IN [mant |-> SubSeq(s, 1, k - 1), exp |-> SubSeq(s, k + 1, Len(s)),
        hasExp |-> es # {}]
DecimalOK(s) ==
    LET p == DecimalParts(s)
    IN /\ MantissaOK(p.mant)
       /\ p.hasExp => DigitPart(Unsigned(p.exp))
DecimalValue(s) ==
    LET p == DecimalParts(s)
        mp == MantissaParts(p.mant)
        m == DigitsValue(mp.frac, DigitsValue(mp.int, 0))
        x == IF p.hasExp
             THEN (IF Negative(p.exp) THEN -1 ELSE 1) * DigitsValue(Unsigned(p.exp), 0)
             ELSE 0
    IN [m |-> m, e |-> x - NDigits(mp.frac)]

Infinities == {<<"i", "n", "f">>, <<"i", "n", "f", "i", "n", "i", "t", "y">>}
NaNs == {<<"n", "a", "n">>}

\* float(raw): whether the string is a float literal, and its value.
FloatParses(raw) ==
    LET body == Unsigned(strip(raw))
    IN lower(body) \in Infinities \cup NaNs \/ DecimalOK(body)
FloatOf(raw) ==
    LET s == strip(raw)
        body == Unsigned(s)
        d == DecimalValue(body)
    IN IF lower(body) \in NaNs THEN NaN
       ELSE IF lower(body) \in Infinities THEN Inf(Negative(s))
       ELSE Normal(IF Negative(s) THEN -d.m ELSE d.m, d.e)

-----------------------------------------------------------------------------
(* The environment *)

Names == {"INSTANCE_ID", "LOCK_KEY", "LOCK_TTL_MS", "LOCK_RENEW_EVERY_MS",
          "STANDBY_SLEEP_MS", "REDIS_HOST", "REDIS_PORT", "REDIS_DB",
          "REDIS_PASSWORD", "REDIS_SOCKET_CONNECT_TIMEOUT", "REDIS_SOCKET_TIMEOUT",
          "REDIS_RETRY_ON_TIMEOUT"}

EmptyEnv == [n \in {} |-> <<>>]
Put(env, name, val) ==
    [n \in DOMAIN env \cup {name} |-> IF n = name THEN val ELSE env[n]]
Del(env, name) == [n \in DOMAIN env \ {name} |-> env[n]]

\* os.getenv(name) and os.getenv(name, default)
getenv(env, name) == IF name \in DOMAIN env THEN PyStr(env[name]) ELSE PyNone
\* Variant of getenv_default: the default argument left out of the call.
getenv_no_default(env, name, default) == getenv(env, name)
getenv_default(env, name, default) ==
    IF name \in DOMAIN env THEN PyStr(env[name]) ELSE PyStr(default)

\* load_dotenv(path, override): the file's bindings become environment
\* variables; one that is already set is kept unless override is given.
\* Variant of load_dotenv: called with override=True.
load_dotenv_override(env, file) ==
    [n \in DOMAIN env \cup DOMAIN file |-> IF n \in DOMAIN file THEN file[n] ELSE env[n]]
load_dotenv(env, file) ==
    [n \in DOMAIN env \cup DOMAIN file |-> IF n \in DOMAIN env THEN env[n] ELSE file[n]]

-----------------------------------------------------------------------------
(* The leaf functions *)

Truthy == {<<"1">>, <<"t", "r", "u", "e">>, <<"y", "e", "s">>, <<"y">>, <<"t">>}

\* Variant of str_to_bool: the value trimmed before the comparison.
str_to_bool_stripped(value, default) ==
    IF value = PyNone THEN default ELSE lower(strip(value.v)) \in Truthy
str_to_bool(value, default) ==
    IF value = PyNone THEN default ELSE lower(value.v) \in Truthy

\* Variants of get_int: "if not raw" for "if raw is None", and the default
\* returned from the except clause.
get_int_falsy(env, name, default) ==
    LET raw == getenv(env, name)
    IN IF raw = PyNone \/ raw.v = <<>> THEN Return(PyInt(default))
       ELSE IF IntParses(raw.v) THEN Return(PyInt(IntOf(raw.v)))
       ELSE Raise("ValueError",
                  <<"Environment variable ", name, " must be an integer, got '">>
                      \o raw.v \o <<"'">>)
get_int_lenient(env, name, default) ==
    LET raw == getenv(env, name)
    IN IF raw = PyNone \/ ~IntParses(raw.v) THEN Return(PyInt(default))
       ELSE Return(PyInt(IntOf(raw.v)))
get_int(env, name, default) ==
    LET raw == getenv(env, name)
    IN IF raw = PyNone THEN Return(PyInt(default))
       ELSE IF IntParses(raw.v) THEN Return(PyInt(IntOf(raw.v)))
       ELSE Raise("ValueError",
                  <<"Environment variable ", name, " must be an integer, got '">>
                      \o raw.v \o <<"'">>)

get_float(env, name, default) ==
    LET raw == getenv(env, name)
    IN IF raw = PyNone THEN Return(PyFloat(default))
       ELSE IF FloatParses(raw.v) THEN Return(PyFloat(FloatOf(raw.v)))
       ELSE Raise("ValueError",
                  <<"Environment variable ", name, " must be a float, got '">>
                      \o raw.v \o <<"'">>)

\* Variant of get_required: the trimmed value returned.
get_required_trimmed(env, name) ==
    LET value == getenv(env, name)
    IN IF value = PyNone \/ strip(value.v) = <<>>
       THEN Raise("RuntimeError",
                  <<"Environment variable ", name, " is required for startup">>)
       ELSE Return(PyStr(strip(value.v)))
get_required(env, name) ==
    LET value == getenv(env, name)
    IN IF value = PyNone \/ strip(value.v) = <<>>
       THEN Raise("RuntimeError",
                  <<"Environment variable ", name, " is required for startup">>)
       ELSE Return(value)

-----------------------------------------------------------------------------
(* get_config *)

IntSettings == {"LOCK_TTL_MS", "LOCK_RENEW_EVERY_MS", "STANDBY_SLEEP_MS",
                "REDIS_PORT", "REDIS_DB"}
FloatSettings == {"REDIS_SOCKET_CONNECT_TIMEOUT", "REDIS_SOCKET_TIMEOUT"}

One == [cls |-> "fin", m |-> 1, e |-> 0]

\* The expression get_config evaluates for one setting.
Resolve(env, name) ==
    CASE name = "LOCK_KEY" -> get_required(env, "LOCK_KEY")
      [] name = "LOCK_TTL_MS" -> get_int(env, "LOCK_TTL_MS", 15000)
      [] name = "LOCK_RENEW_EVERY_MS" -> get_int(env, "LOCK_RENEW_EVERY_MS", 5000)
      [] name = "STANDBY_SLEEP_MS" -> get_int(env, "STANDBY_SLEEP_MS", 2000)
      [] name = "REDIS_HOST" ->
            Return(getenv_default(env, "REDIS_HOST", <<"r", "e", "d", "i", "s">>))
      [] name = "REDIS_PORT" -> get_int(env, "REDIS_PORT", 6379)
      [] name = "REDIS_DB" -> get_int(env, "REDIS_DB", 0)
      [] name = "REDIS_PASSWORD" -> Return(getenv(env, "REDIS_PASSWORD"))
      [] name = "INSTANCE_ID" -> Return(getenv(env, "INSTANCE_ID"))
      [] name = "REDIS_SOCKET_CONNECT_TIMEOUT" ->
            get_float(env, "REDIS_SOCKET_CONNECT_TIMEOUT", One)
      [] name = "REDIS_SOCKET_TIMEOUT" -> get_float(env, "REDIS_SOCKET_TIMEOUT", One)
      [] name = "REDIS_RETRY_ON_TIMEOUT" ->
            Return(PyBool(str_to_bool(
                getenv_default(env, "REDIS_RETRY_ON_TIMEOUT", <<"t", "r", "u", "e">>),
                TRUE)))

\* Variant of CodeOrder: the Redis block moved above the lock block.
CodeOrderRedisFirst ==
    <<"REDIS_HOST", "REDIS_PORT", "REDIS_DB", "REDIS_PASSWORD",
      "LOCK_KEY", "LOCK_TTL_MS", "LOCK_RENEW_EVERY_MS", "STANDBY_SLEEP_MS",
      "INSTANCE_ID", "REDIS_SOCKET_CONNECT_TIMEOUT", "REDIS_SOCKET_TIMEOUT",
      "REDIS_RETRY_ON_TIMEOUT">>

\* The order in which get_config evaluates them: the four locals, the Redis
\* locals, then the entries of the dict display that call something.
CodeOrder == <<"LOCK_KEY", "LOCK_TTL_MS", "LOCK_RENEW_EVERY_MS", "STANDBY_SLEEP_MS",
               "REDIS_HOST", "REDIS_PORT", "REDIS_DB", "REDIS_PASSWORD",
               "INSTANCE_ID", "REDIS_SOCKET_CONNECT_TIMEOUT", "REDIS_SOCKET_TIMEOUT",
               "REDIS_RETRY_ON_TIMEOUT">>

\* Variant of Run: every expression evaluated, the last exception raised.
RECURSIVE RunLast(_, _, _, _, _)
RunLast(env, order, i, done, failed) ==
    IF i > Len(order)
    THEN IF failed = <<>>
         THEN [kind |-> "return", value |-> done, reads |-> order]
         ELSE [kind |-> "raise", exc |-> failed[Len(failed)], reads |-> order]
    ELSE LET r == Resolve(env, order[i])
         IN IF r.kind = "raise"
            THEN RunLast(env, order, i + 1, done, Append(failed, r.exc))
            ELSE RunLast(env, order, i + 1, Put(done, order[i], r.value), failed)
RunRaiseLast(env, order, i, done) == RunLast(env, order, i, done, <<>>)

\* The settings of order evaluated one after the other from the i-th on, with
\* the values so far in done: the first exception ends the call, and the dict
\* is built only when every expression has returned.  reads lists the
\* settings whose expression was evaluated.
RECURSIVE Run(_, _, _, _)
Run(env, order, i, done) ==
    IF i > Len(order)
    THEN [kind |-> "return", value |-> done, reads |-> order]
    ELSE LET r == Resolve(env, order[i])
         IN IF r.kind = "raise"
            THEN [kind |-> "raise", exc |-> r.exc, reads |-> SubSeq(order, 1, i)]
            ELSE Run(env, order, i + 1, Put(done, order[i], r.value))

\* get_config with its expressions evaluated in a given order, and as written.
GetConfigIn(env, order) == Run(env, order, 1, EmptyEnv)
get_config(env) == GetConfigIn(env, CodeOrder)

-----------------------------------------------------------------------------
(* Bounds and inputs *)

MaxVars == 3      \* variables set in os.environ at once
MaxCalls == 2     \* returned dicts the callers keep
MaxKeyLen == 3    \* length of a LOCK_KEY value given to get_required
MaxNumLen == 3    \* length of a value given to get_int or get_float
MaxBoolLen == 4   \* length of a value given to str_to_bool

\* The strings over an alphabet, up to a length.
Strings(alphabet, n) == UNION {[1..k -> alphabet] : k \in 0..n}

KeyAlphabet == {" ", "\t", "a", "b"}
IntAlphabet == {"0", "1", "-", "_", " ", "x"}
FloatAlphabet == {"1", ".", "-", " ", "n", "a"}
BoolAlphabet == {"1", "t", "T", "r", "u", "e", "y", "s", " "}
BoolSamples == {<<" ", "t", "r", "u", "e", " ">>, <<"o", "n">>, <<"f", "a", "l", "s", "e">>,
                <<"Y", "E", "S">>, <<"t", "r", "u", "e", "\n">>}

\* The values the environment of the whole-program specifications takes.
Samples == [n \in Names |->
    CASE n = "LOCK_KEY" -> {<<"s", "v", "c", "-", "a">>, <<" ", "a", " ">>, <<>>, <<" ", " ">>}
      [] n \in IntSettings -> {<<"6", "3", "8", "0">>, <<"x">>, <<>>}
      [] n \in FloatSettings -> {<<"2", ".", "5">>, <<"a", "b", "c">>, <<"n", "a", "n">>}
      [] n = "REDIS_RETRY_ON_TIMEOUT" -> {<<"Y", "E", "S">>, <<"o", "n">>}
      [] OTHER -> {<<"h">>}]

CallNames == {"LOCK_KEY", "REDIS_PORT", "REDIS_SOCKET_TIMEOUT"}
CallSamples == [n \in CallNames |->
    CASE n = "LOCK_KEY" -> {<<"a">>, <<"b">>}
      [] n = "REDIS_PORT" -> {<<"1">>, <<"x">>}
      [] n = "REDIS_SOCKET_TIMEOUT" -> {<<"1">>, <<"n", "a", "n">>}]

ImportNames == {"LOCK_KEY", "REDIS_PORT", "REDIS_HOST"}
ProcessValues == {<<"p">>, <<"1">>}
FileValues == {<<"f">>, <<"2">>}
EnvsOver(names, values) == UNION {[d -> values] : d \in SUBSET names}

IntDefaults == {15000, 5000, 2000, 6379, 0}

-----------------------------------------------------------------------------
(* Actions *)

NoCall == [kind |-> "none"]

\* The module is imported: load_dotenv(find_dotenv()) runs once.
Import ==
    /\ pc = "start"
    /\ pc' = "ready"
    /\ environ' = load_dotenv(environ, dotenv)
    /\ UNCHANGED <<dotenv, preload, result, prev, heap, call>>

\* The host process sets or unsets a variable.
SetenvFrom(pool) ==
    \E name \in DOMAIN pool : \E val \in pool[name] :
        /\ pc = "ready"
        /\ name \in DOMAIN environ \/ Cardinality(DOMAIN environ) < MaxVars
        /\ environ' = Put(environ, name, val)
        /\ result' = NoCall
        /\ prev' = NoCall
        /\ UNCHANGED <<pc, dotenv, preload, heap, call>>

Unsetenv ==
    \E name \in DOMAIN environ :
        /\ pc = "ready"
        /\ environ' = Del(environ, name)
        /\ result' = NoCall
        /\ prev' = NoCall
        /\ UNCHANGED <<pc, dotenv, preload, heap, call>>

\* The dict display of the return statement makes a new object.
\* Variant: one module-level dict, filled in again by every call.
AllocateShared(h, d) == [i \in 1..(Len(h) + 1) |-> d]
Allocate(h, d) == Append(h, d)

\* get_config leaves os.environ as it found it.
\* Variant: the password removed from the environment once read.
EnvAfterScrub(env) == Del(env, "REDIS_PASSWORD")
EnvAfter(env) == env

\* A call of get_config(); keep says whether the caller holds on to the dict.
GetConfigStep(keep) ==
    /\ pc = "ready"
    /\ keep => Len(heap) < MaxCalls
    /\ LET out == get_config(environ)
       IN /\ result' = out
          /\ prev' = result
          /\ heap' = IF keep /\ out.kind = "return" THEN Allocate(heap, out.value) ELSE heap
    /\ environ' = EnvAfter(environ)
    /\ UNCHANGED <<pc, dotenv, preload, call>>

Setenv == SetenvFrom(Samples)
SetenvFew == SetenvFrom(CallSamples)
GetConfigCall == GetConfigStep(FALSE)
GetConfigKeep == GetConfigStep(TRUE)

\* Direct calls of the leaf functions.
CallStrToBool ==
    \E d \in BOOLEAN :
        /\ pc = "ready"
        /\ LET value == getenv(environ, "REDIS_RETRY_ON_TIMEOUT")
           IN call' = [fn |-> "str_to_bool", value |-> value, default |-> d,
                       out |-> str_to_bool(value, d)]
        /\ UNCHANGED <<pc, environ, dotenv, preload, result, prev, heap>>

CallGetInt ==
    \E name \in IntSettings : \E d \in IntDefaults :
        /\ pc = "ready"
        /\ call' = [fn |-> "get_int", name |-> name, default |-> d,
                    out |-> get_int(environ, name, d)]
        /\ UNCHANGED <<pc, environ, dotenv, preload, result, prev, heap>>

CallGetFloat ==
    \E name \in FloatSettings :
        /\ pc = "ready"
        /\ call' = [fn |-> "get_float", name |-> name, default |-> One,
                    out |-> get_float(environ, name, One)]
        /\ UNCHANGED <<pc, environ, dotenv, preload, result, prev, heap>>

CallGetRequired ==
    /\ pc = "ready"
    /\ call' = [fn |-> "get_required", name |-> "LOCK_KEY",
                out |-> get_required(environ, "LOCK_KEY")]
    /\ UNCHANGED <<pc, environ, dotenv, preload, result, prev, heap>>

-----------------------------------------------------------------------------
(* Specifications *)

InitWith(p, envs, files) ==
    /\ pc = p
    /\ environ \in envs
    /\ dotenv \in files
    /\ preload = environ
    /\ result = NoCall
    /\ prev = NoCall
    /\ heap = <<>>
    /\ call = NoCall

\* The imported module in a process whose environment changes between calls.
Init == InitWith("ready", {EmptyEnv}, {EmptyEnv})
Next == Setenv \/ Unsetenv \/ GetConfigCall
Spec == Init /\ [][Next]_vars

\* The same, with callers that keep the dicts they were given.
NextCalls == SetenvFew \/ Unsetenv \/ GetConfigKeep
SpecCalls == Init /\ [][NextCalls]_vars

\* The import: every process environment and every .env file over ImportNames.
InitImport ==
    InitWith("start", EnvsOver(ImportNames, ProcessValues), EnvsOver(ImportNames, FileValues))
NextImport == Import \/ GetConfigCall
SpecImport == InitImport /\ [][NextImport]_vars

\* get_required on every LOCK_KEY value.
InitReq ==
    InitWith("ready",
             {EmptyEnv} \cup {Put(EmptyEnv, "LOCK_KEY", s) : s \in Strings(KeyAlphabet, MaxKeyLen)},
             {EmptyEnv})
NextReq == CallGetRequired \/ GetConfigCall
SpecReq == InitReq /\ [][NextReq]_vars

\* get_int and get_float on every value of every numeric setting.
InitNum ==
    InitWith("ready",
             {EmptyEnv}
             \cup {Put(EmptyEnv, n, s) : n \in IntSettings, s \in Strings(IntAlphabet, MaxNumLen)}
             \cup {Put(EmptyEnv, n, s) : n \in FloatSettings, s \in Strings(FloatAlphabet, MaxNumLen)},
             {EmptyEnv})
NextNum == CallGetInt \/ CallGetFloat
SpecNum == InitNum /\ [][NextNum]_vars

\* str_to_bool on every value of REDIS_RETRY_ON_TIMEOUT, LOCK_KEY being set.
WithKey == Put(EmptyEnv, "LOCK_KEY", <<"k">>)
InitBool ==
    InitWith("ready",
             {WithKey} \cup {Put(WithKey, "REDIS_RETRY_ON_TIMEOUT", s) :
                                s \in Strings(BoolAlphabet, MaxBoolLen) \cup BoolSamples},
             {EmptyEnv})
NextBool == CallStrToBool \/ GetConfigCall
SpecBool == InitBool /\ [][NextBool]_vars

-----------------------------------------------------------------------------
(* What the claims are stated with *)

Range(s) == {s[i] : i \in DOMAIN s}
Infix(part, s) == \E i \in 0..(Len(s) - Len(part)) : SubSeq(s, i + 1, i + Len(part)) = part
Min(S) == CHOOSE i \in S : \A j \in S : i <= j

\* A string with nothing but whitespace in it (the empty one included).
Blank(s) == \A i \in DOMAIN s : s[i] \in Whitespace

\* Whether a setting resolves in an environment.
SettingOK(env, n) ==
    CASE n = "LOCK_KEY" -> n \in DOMAIN env /\ ~Blank(env[n])
      [] n \in IntSettings -> n \notin DOMAIN env \/ IntParses(env[n])
      [] n \in FloatSettings -> n \notin DOMAIN env \/ FloatParses(env[n])
      [] OTHER -> TRUE
AllOK(env) == \A n \in Names : SettingOK(env, n)

\* The error of a setting that does not resolve: its kind, and that it names
\* the setting and, for a number, quotes the raw value.
IsErrorOf(exc, env, n) ==
    /\ n \in Range(exc.msg)
    /\ IF n = "LOCK_KEY"
       THEN exc.type = "RuntimeError" /\ " is required for startup" \in Range(exc.msg)
       ELSE /\ exc.type = "ValueError"
            /\ Infix(env[n] \o <<"'">>, exc.msg)
            /\ IF n \in IntSettings
               THEN " must be an integer, got '" \in Range(exc.msg)
               ELSE " must be a float, got '" \in Range(exc.msg)

-----------------------------------------------------------------------------
(* C1 *)

\* C1: get_required("LOCK_KEY"), called directly or by get_config, raises the
\* missing-required error naming LOCK_KEY when LOCK_KEY is absent, empty or
\* all whitespace, and otherwise gives the raw environment string, leading
\* and trailing whitespace kept.
C1_Required ==
    LET ok == SettingOK(environ, "LOCK_KEY")
    IN /\ call # NoCall =>
              IF ok THEN call.out = Return(PyStr(environ["LOCK_KEY"]))
              ELSE call.out.kind = "raise" /\ IsErrorOf(call.out.exc, environ, "LOCK_KEY")
       /\ result # NoCall =>
              IF ok THEN result.kind = "return"
                         /\ result.value["LOCK_KEY"] = PyStr(environ["LOCK_KEY"])
              ELSE result.kind = "raise" /\ IsErrorOf(result.exc, environ, "LOCK_KEY")

C1_Witness ==
    /\ call # NoCall /\ call.out.kind = "return"
    /\ result # NoCall /\ result.kind = "return"
    /\ Len(environ["LOCK_KEY"]) = 3
    /\ environ["LOCK_KEY"][1] = " " /\ environ["LOCK_KEY"][3] = "\t"
    /\ result.value["LOCK_KEY"].v = environ["LOCK_KEY"]

-----------------------------------------------------------------------------
(* C2 *)

\* C2: get_config hands the caller a record exactly when every setting
\* resolves; when any setting fails the caller gets an exception and no
\* record, partial or defaulted.
C2_AllOrNothing ==
    result # NoCall =>
        IF AllOK(environ)
        THEN result.kind = "return" /\ DOMAIN result.value = Names
        ELSE result.kind = "raise" /\ "value" \notin DOMAIN result

C2_Witness ==
    /\ result # NoCall /\ result.kind = "raise"
    /\ SettingOK(environ, "LOCK_KEY")
    /\ "REDIS_PORT" \in DOMAIN environ /\ ~IntParses(environ["REDIS_PORT"])
    /\ Len(result.reads) > 1

-----------------------------------------------------------------------------
(* C3 *)

\* C3: for a numeric setting that is present, get_int / get_float never give
\* the default: they return the parsed value when the raw string parses and
\* otherwise raise the invalid-integer (invalid-float) error whose message
\* holds the setting's name and the raw value; the default is returned when
\* the setting is absent.
C3_Coercers ==
    call # NoCall =>
        LET n == call.name
            typed == IF call.fn = "get_int" THEN PyInt(call.default) ELSE PyFloat(call.default)
        IN IF n \notin DOMAIN environ THEN call.out = Return(typed)
           ELSE IF SettingOK(environ, n)
           THEN call.out = Return(IF call.fn = "get_int" THEN PyInt(IntOf(environ[n]))
                                  ELSE PyFloat(FloatOf(environ[n])))
           ELSE call.out.kind = "raise" /\ IsErrorOf(call.out.exc, environ, n)

C3_Witness ==
    /\ call # NoCall /\ call.fn = "get_int"
    /\ call.name \in DOMAIN environ
    /\ environ[call.name] = <<>>
    /\ call.out.kind = "raise"

-----------------------------------------------------------------------------
(* C4 *)

SchemaDefault ==
    [INSTANCE_ID |-> PyNone,
     LOCK_TTL_MS |-> PyInt(15000),
     LOCK_RENEW_EVERY_MS |-> PyInt(5000),
     STANDBY_SLEEP_MS |-> PyInt(2000),
     REDIS_HOST |-> PyStr(<<"r", "e", "d", "i", "s">>),
     REDIS_PORT |-> PyInt(6379),
     REDIS_DB |-> PyInt(0),
     REDIS_PASSWORD |-> PyNone,
     REDIS_SOCKET_CONNECT_TIMEOUT |-> PyFloat([cls |-> "fin", m |-> 1, e |-> 0]),
     REDIS_SOCKET_TIMEOUT |-> PyFloat([cls |-> "fin", m |-> 1, e |-> 0]),
     REDIS_RETRY_ON_TIMEOUT |-> PyBool(TRUE)]

ExampleEnv ==
    [LOCK_KEY |-> <<"s", "v", "c", "-", "a">>, REDIS_PORT |-> <<"6", "3", "8", "0">>]

\* C4: a record get_config returns has exactly the twelve schema names as
\* keys, and every setting absent from the environment holds its schema
\* default; LOCK_KEY=svc-a with REDIS_PORT=6380 gives those two values.
C4_Schema ==
    result # NoCall /\ result.kind = "return" =>
        /\ DOMAIN result.value =
               {"INSTANCE_ID", "LOCK_KEY", "LOCK_TTL_MS", "LOCK_RENEW_EVERY_MS",
                "STANDBY_SLEEP_MS", "REDIS_HOST", "REDIS_PORT", "REDIS_DB",
                "REDIS_PASSWORD", "REDIS_SOCKET_CONNECT_TIMEOUT",
                "REDIS_SOCKET_TIMEOUT", "REDIS_RETRY_ON_TIMEOUT"}
        /\ \A n \in DOMAIN SchemaDefault :
               n \notin DOMAIN environ => result.value[n] = SchemaDefault[n]
        /\ environ = ExampleEnv =>
               /\ result.value["LOCK_KEY"] = PyStr(<<"s", "v", "c", "-", "a">>)
               /\ result.value["REDIS_PORT"] = PyInt(6380)

C4_Witness ==
    /\ environ = ExampleEnv
    /\ result # NoCall /\ result.kind = "return"
    /\ result.value["REDIS_HOST"].v = <<"r", "e", "d", "i", "s">>
    /\ result.value["LOCK_TTL_MS"].v = 15000

-----------------------------------------------------------------------------
(* C5 *)

\* Equal up to the case of ASCII letters.
SameLetter(c, d) == c = d \/ (c \in Upper /\ LowerOf[c] = d)
IsToken(s, token) == Len(s) = Len(token) /\ \A i \in DOMAIN s : SameLetter(s[i], token[i])
IsTruthy(s) ==
    \/ IsToken(s, <<"1">>) \/ IsToken(s, <<"t", "r", "u", "e">>)
    \/ IsToken(s, <<"y", "e", "s">>) \/ IsToken(s, <<"y">>) \/ IsToken(s, <<"t">>)

\* C5: str_to_bool never raises; absent input gives the default, and a string
\* gives true exactly when it is one of 1, true, yes, y, t in any case, so
\* REDIS_RETRY_ON_TIMEOUT is true when unset and false for any other string.
C5_StrToBool ==
    /\ call # NoCall =>
           call.out = IF call.value = PyNone THEN call.default ELSE IsTruthy(call.value.v)
    /\ result # NoCall =>
           /\ result.kind = "return"
           /\ result.value["REDIS_RETRY_ON_TIMEOUT"] =
                  PyBool(IF "REDIS_RETRY_ON_TIMEOUT" \in DOMAIN environ
                         THEN IsTruthy(environ["REDIS_RETRY_ON_TIMEOUT"])
                         ELSE TRUE)

C5_Witness ==
    /\ "REDIS_RETRY_ON_TIMEOUT" \in DOMAIN environ
    /\ environ["REDIS_RETRY_ON_TIMEOUT"] = <<" ", "t", "r", "u", "e", " ">>
    /\ call # NoCall /\ call.out = FALSE
    /\ result # NoCall /\ result.value["REDIS_RETRY_ON_TIMEOUT"] = PyBool(FALSE)

-----------------------------------------------------------------------------
(* C6 *)

IsNaN(x) == x.t = "float" /\ x.v.cls = "nan"

\* C6 as stated: two get_config calls with no change of the environment in
\* between give field-for-field equal records, or fail with the same error.
C6_Idempotent ==
    prev # NoCall /\ result # NoCall =>
        /\ prev.kind = result.kind
        /\ prev.kind = "raise" => prev.exc = result.exc
        /\ prev.kind = "return" =>
               /\ DOMAIN prev.value = DOMAIN result.value
               /\ \A k \in DOMAIN prev.value : PyEq(prev.value[k], result.value[k])

\* C6 amended: the two calls end the same way, with the same error or with
\* records of the same keys whose fields are pairwise equal, except a float
\* field parsed from a NaN string, which is NaN in both records and so
\* equal to nothing.
C6_IdempotentButNaN ==
    prev # NoCall /\ result # NoCall =>
        /\ prev.kind = result.kind
        /\ prev.kind = "raise" => prev.exc = result.exc
        /\ prev.kind = "return" =>
               /\ DOMAIN prev.value = DOMAIN result.value
               /\ \A k \in DOMAIN prev.value :
                      IF IsNaN(prev.value[k]) \/ IsNaN(result.value[k])
                      THEN /\ k \in FloatSettings
                           /\ k \in DOMAIN environ /\ lower(Unsigned(strip(environ[k]))) \in NaNs
                           /\ IsNaN(prev.value[k]) /\ IsNaN(result.value[k])
                      ELSE PyEq(prev.value[k], result.value[k])

C6_Witness ==
    /\ prev # NoCall /\ prev.kind = "return"
    /\ result # NoCall /\ result.kind = "return"
    /\ IsNaN(result.value["REDIS_SOCKET_TIMEOUT"])
    /\ result.value["REDIS_PORT"] = PyInt(6380)

-----------------------------------------------------------------------------
(* C7 *)

\* Other orders the twelve expressions could be evaluated in: any one setting
\* moved to the front, and the whole order reversed.
MoveFront(n) == <<n>> \o SelectSeq(CodeOrder, LAMBDA x : x # n)
Reversed == [i \in 1..Len(CodeOrder) |-> CodeOrder[Len(CodeOrder) + 1 - i]]
Orders == {MoveFront(n) : n \in Names} \cup {Reversed}

\* What the caller sees of an outcome.
Seen(out) ==
    IF out.kind = "return" THEN [kind |-> "return", value |-> out.value]
    ELSE [kind |-> "raise", exc |-> out.exc]

FirstBad(env, order) == order[Min({i \in DOMAIN order : ~SettingOK(env, order[i])})]

\* C7 as stated: whatever the order of resolution, the caller sees the same
\* record or the same error.
C7_OrderFree ==
    result # NoCall =>
        \A o \in Orders : Seen(GetConfigIn(environ, o)) = Seen(result)

\* C7 amended: the order changes neither whether get_config returns nor any
\* field of the record it returns; when it raises, the error is the one of
\* the failing setting that comes first in the order, so with two or more
\* failing settings the error depends on the order.
C7_OrderFreeButError ==
    result # NoCall =>
        \A o \in Orders \cup {CodeOrder} :
            LET alt == GetConfigIn(environ, o)
            IN /\ alt.kind = result.kind
               /\ alt.kind = "return" => alt.value = result.value
               /\ alt.kind = "raise" => IsErrorOf(alt.exc, environ, FirstBad(environ, o))

C7_Witness ==
    /\ result # NoCall /\ result.kind = "raise"
    /\ \E o \in Orders :
           /\ GetConfigIn(environ, o).kind = "raise"
           /\ GetConfigIn(environ, o).exc # result.exc

-----------------------------------------------------------------------------
(* C8 *)

\* The value a setting that is set and well-formed resolves to.
ValueFrom(env, n) ==
    CASE n \in IntSettings -> PyInt(IntOf(env[n]))
      [] n \in FloatSettings -> PyFloat(FloatOf(env[n]))
      [] n = "REDIS_RETRY_ON_TIMEOUT" -> PyBool(IsTruthy(env[n]))
      [] OTHER -> PyStr(env[n])

\* C8: the load of the .env file at import only adds variables: a variable
\* the process environment already had keeps its value, a new one has the
\* file's, and get_config resolves the former from the process's value.
C8_Precedence ==
    pc = "ready" =>
        /\ \A n \in DOMAIN preload : n \in DOMAIN environ /\ environ[n] = preload[n]
        /\ \A n \in DOMAIN environ \ DOMAIN preload :
               n \in DOMAIN dotenv /\ environ[n] = dotenv[n]
        /\ result # NoCall /\ result.kind = "return" =>
               \A n \in DOMAIN preload : result.value[n] = ValueFrom(preload, n)

C8_Witness ==
    /\ pc = "ready"
    /\ result # NoCall /\ result.kind = "return"
    /\ "LOCK_KEY" \in DOMAIN preload \cap DOMAIN dotenv
    /\ preload["LOCK_KEY"] # dotenv["LOCK_KEY"]
    /\ "REDIS_PORT" \in DOMAIN environ \ DOMAIN preload

-----------------------------------------------------------------------------
(* C9 *)

\* C9: a record get_config has returned is never changed afterwards, by a
\* change of the environment or by a later call: every dict on the heap is
\* still there, with the same fields, after every step.
C9_NeverMutated ==
    [][\A i \in DOMAIN heap : i \in DOMAIN heap' /\ heap'[i] = heap[i]]_vars

C9_Witness ==
    /\ Len(heap) = 2
    /\ heap[1] # heap[2]
    /\ result # NoCall /\ result.kind = "return" /\ result.value = heap[2]

-----------------------------------------------------------------------------
(* C10 *)

FailOrder == <<"LOCK_KEY", "LOCK_TTL_MS", "LOCK_RENEW_EVERY_MS", "STANDBY_SLEEP_MS",
               "REDIS_PORT", "REDIS_DB", "REDIS_SOCKET_CONNECT_TIMEOUT",
               "REDIS_SOCKET_TIMEOUT">>
FailingAt(env) == {i \in DOMAIN FailOrder : ~SettingOK(env, FailOrder[i])}

\* C10: with one or more failing settings get_config raises the error of the
\* one that comes first in LOCK_KEY, LOCK_TTL_MS, LOCK_RENEW_EVERY_MS,
\* STANDBY_SLEEP_MS, REDIS_PORT, REDIS_DB, REDIS_SOCKET_CONNECT_TIMEOUT,
\* REDIS_SOCKET_TIMEOUT, and resolves no setting after it.
C10_FirstFailure ==
    result # NoCall /\ FailingAt(environ) # {} =>
        LET first == Min(FailingAt(environ))
        IN /\ result.kind = "raise"
           /\ IsErrorOf(result.exc, environ, FailOrder[first])
           /\ \A n \in Names \ {FailOrder[first]} : n \notin Range(result.exc.msg)
           /\ result.reads[Len(result.reads)] = FailOrder[first]
           /\ \A i \in DOMAIN FailOrder : i > first => FailOrder[i] \notin Range(result.reads)
           /\ "REDIS_RETRY_ON_TIMEOUT" \notin Range(result.reads)

C10_Witness ==
    /\ result # NoCall /\ result.kind = "raise"
    /\ ~SettingOK(environ, "LOCK_KEY")
    /\ Cardinality(FailingAt(environ)) = 3
    /\ result.exc.type = "RuntimeError"

=============================================================================
